---- MODULE Spec2Model ----
(***************************************************************************)
(* Model of the declarative macros of wrapped-list (src/src/lib.rs):       *)
(* wrapped_list!, wrapped_vec! and wrapped_tuple!.  Each macro has two     *)
(* rules,                                                                  *)
(*     $wrapper:path   ; $($e:expr),* $(,)?   =>  $($wrapper($e)),*        *)
(*     $wrapper:ident! ; $($e:expr),* $(,)?   =>  $($wrapper!($e)),*       *)
(* tried in order on the token stream of an invocation.  The model keeps   *)
(* the token stream, the rule being tried, the bindings of the matched     *)
(* rule and the fragment the transcriber has emitted so far.               *)
(***************************************************************************)
EXTENDS Integers, Sequences, FiniteSets, TLC

VARIABLES macro, input, pc, rule, wrapper, es, idx, out, result

vars == <<macro, input, pc, rule, wrapper, es, idx, out, result>>

(***************************************************************************)
(* Bounds of the model.                                                    *)
(***************************************************************************)
\* the longest argument token list (expressions and commas) after the `;`
MaxArgTok == 7

(***************************************************************************)
(* Tokens.                                                                 *)
(***************************************************************************)
Idents == {"w", "m", "a", "b"}

Literals == {"1", "2"}

ArgTokens == Literals \cup {","}

\* the token sequences written before the `;`
WrapperHeads ==
  { <<"w">>, <<"a", "::", "b">>, <<"::", "w">>,
    <<"m", "!">>,
    <<"a", "::", "b", "!">>, <<"1">>, <<"1", "!">>, <<>>, <<"!">>,
    <<"w", "::">>, <<"m", "!", "!">>, <<"w", "m">> }

\* the position of the `;` that ends the wrapper
SemiPos(toks) == CHOOSE i \in 1..Len(toks) : toks[i] = ";" /\ \A j \in 1..(i - 1) : toks[j] # ";"

Macros == {"wrapped_list", "wrapped_vec", "wrapped_tuple"}

(***************************************************************************)
(* The rules of the three macros: the fragment specifier of $wrapper,      *)
(* whether a `!` follows it in the pattern, the form of one transcribed    *)
(* element and the container that encloses the transcription.              *)
(***************************************************************************)
\* mutation: the second pattern written `$wrapper:path!`
wrapped_list_path_bang ==
  << [frag |-> "path", bang |-> FALSE, call |-> "fn",    container |-> "array"],
     [frag |-> "path", bang |-> TRUE,  call |-> "macro", container |-> "array"] >>

wrapped_list ==
  << [frag |-> "path",  bang |-> FALSE, call |-> "fn",    container |-> "array"],
     [frag |-> "ident", bang |-> TRUE,  call |-> "macro", container |-> "array"] >>

\* mutation: the second transcriber written `$wrapper($e)`
wrapped_vec_call_only ==
  << [frag |-> "path",  bang |-> FALSE, call |-> "fn", container |-> "vec"],
     [frag |-> "ident", bang |-> TRUE,  call |-> "fn", container |-> "vec"] >>

wrapped_vec ==
  << [frag |-> "path",  bang |-> FALSE, call |-> "fn",    container |-> "vec"],
     [frag |-> "ident", bang |-> TRUE,  call |-> "macro", container |-> "vec"] >>

\* mutation: the transcribers of wrapped_tuple written with brackets
wrapped_tuple_brackets ==
  << [frag |-> "path",  bang |-> FALSE, call |-> "fn",    container |-> "array"],
     [frag |-> "ident", bang |-> TRUE,  call |-> "macro", container |-> "array"] >>

wrapped_tuple ==
  << [frag |-> "path",  bang |-> FALSE, call |-> "fn",    container |-> "paren"],
     [frag |-> "ident", bang |-> TRUE,  call |-> "macro", container |-> "paren"] >>

Rules(m) ==
  CASE m = "wrapped_list"  -> wrapped_list
    [] m = "wrapped_vec"   -> wrapped_vec
    [] m = "wrapped_tuple" -> wrapped_tuple

(***************************************************************************)
(* Matching one rule against the token stream, as the macro_rules matcher  *)
(* does it.                                                                *)
(***************************************************************************)
NoMatch == [status |-> "nomatch", wrapper |-> <<>>, es |-> <<>>]

Fatal == [status |-> "fatal", wrapper |-> <<>>, es |-> <<>>]

MayBeginPath(t) == t \in Idents \/ t = "::"

MayBeginExpr(t) == t \in Literals

\* $wrapper:path -- the position after the path's last segment, 0 when a
\* `::` is not followed by a segment (a parse error, which is fatal)
RECURSIVE PathSegments(_, _)
PathSegments(toks, i) ==
  IF i <= Len(toks) /\ toks[i] = "::"
  THEN IF i + 1 <= Len(toks) /\ toks[i + 1] \in Idents
       THEN PathSegments(toks, i + 2)
       ELSE 0
  ELSE i

ParsePath(toks) ==
  IF toks[1] = "::"
  THEN IF Len(toks) >= 2 /\ toks[2] \in Idents THEN PathSegments(toks, 3) ELSE 0
  ELSE PathSegments(toks, 2)

\* mutation: the repetition written `$($e:expr),+`
RepStartPlus == {"body"}

\* $($e:expr),* $(,)? -- the matcher positions that are live before the
\* first token of the argument list: the repetition's body, or (zero
\* repetitions) the optional comma, or the end of the input
RepStart == {"body", "optc", "eof"}

\* mutation: the pattern written without `$(,)?`
AfterExprNoTrailing == {"sep", "eof"}

\* the positions live after an expression: the repetition's separator, the
\* optional trailing comma, or the end of the input
AfterExpr == {"sep", "optc", "eof"}

\* the positions live after a `,`: it was the separator and an expression
\* follows, or it was the trailing comma and the input ends
AfterComma(T) ==
  (IF "sep" \in T THEN {"body"} ELSE {}) \cup (IF "optc" \in T THEN {"eof"} ELSE {})

RECURSIVE MatchArgs(_, _, _, _)
MatchArgs(toks, i, T, bound) ==
  IF i > Len(toks)
  THEN IF "eof" \in T THEN [status |-> "match", wrapper |-> <<>>, es |-> bound]
                      ELSE NoMatch
  ELSE LET t    == toks[i]
           bb   == IF "body" \in T /\ MayBeginExpr(t) THEN {"body"} ELSE {}
           next == IF t = "," THEN AfterComma(T) ELSE {}
       IN  IF bb # {} /\ next # {} THEN Fatal
           ELSE IF bb = {} /\ next = {} THEN NoMatch
           ELSE IF next # {} THEN MatchArgs(toks, i + 1, next, bound)
           ELSE MatchArgs(toks, i + 1, AfterExpr, Append(bound, t))

\* `;` and the argument list, from position i
MatchRest(toks, i, w) ==
  IF i <= Len(toks) /\ toks[i] = ";"
  THEN LET r == MatchArgs(toks, i + 1, RepStart, <<>>)
       IN  [r EXCEPT !.wrapper = w]
  ELSE NoMatch

\* the pattern `$wrapper:path ;` or `$wrapper:ident ! ;`: a mutation that
\* forgets the `!` of the second pattern
MatchRuleNoBang(r, toks) ==
  IF Len(toks) = 0 THEN NoMatch
  ELSE LET p == IF r.frag = "path"
                THEN IF MayBeginPath(toks[1]) THEN ParsePath(toks) ELSE -1
                ELSE IF toks[1] \in Idents THEN 2 ELSE -1
       IN  IF p = -1 THEN NoMatch
           ELSE IF p = 0 THEN Fatal
           ELSE MatchRest(toks, p, SubSeq(toks, 1, p - 1))

\* one rule against the whole token stream: the $wrapper fragment, the `!`
\* of the second pattern, then `;` and the argument list
MatchRule(r, toks) ==
  IF Len(toks) = 0 THEN NoMatch
  ELSE LET p == IF r.frag = "path"
                THEN IF MayBeginPath(toks[1]) THEN ParsePath(toks) ELSE -1
                ELSE IF toks[1] \in Idents THEN 2 ELSE -1
       IN  IF p = -1 THEN NoMatch
           ELSE IF p = 0 THEN Fatal
           ELSE IF r.bang
                THEN IF p <= Len(toks) /\ toks[p] = "!"
                     THEN MatchRest(toks, p + 1, SubSeq(toks, 1, p - 1))
                     ELSE NoMatch
                ELSE MatchRest(toks, p, SubSeq(toks, 1, p - 1))

(***************************************************************************)
(* Transcription.                                                          *)
(***************************************************************************)
\* mutation: every element transcribed as `$wrapper($e)`
WrapCallOnly(r, w, e) == w \o <<"(", e, ")">>

\* $wrapper($e) or $wrapper!($e)
Wrap(r, w, e) ==
  IF r.call = "fn" THEN w \o <<"(", e, ")">>
                   ELSE w \o <<"!", "(", e, ")">>

Rejected == [container |-> "none", elems |-> <<>>]

Pending == [container |-> "pending", elems |-> <<>>]

\* [ ... ], vec![ ... ] or ( ... ) around the transcribed repetition
Emit(r, fragment) == [container |-> r.container, elems |-> fragment]

(***************************************************************************)
(* The state machine of one invocation.                                    *)
(***************************************************************************)
Init ==
  /\ macro = "wrapped_list"
  /\ input = <<>>
  /\ pc = "idle"
  /\ rule = 0
  /\ wrapper = <<>>
  /\ es = <<>>
  /\ idx = 0
  /\ out = <<>>
  /\ result = Pending

\* the compiler meets an invocation of one of the macros and reads the
\* tokens written before the `;`, and the `;`
Invoke ==
  /\ pc = "idle"
  /\ \E m \in Macros, h \in WrapperHeads :
       /\ macro' = m
       /\ input' = h \o <<";">>
  /\ pc' = "read"
  /\ UNCHANGED <<rule, wrapper, es, idx, out, result>>

\* the next token of the argument list
ReadArgToken ==
  /\ pc = "read"
  /\ Len(input) - SemiPos(input) < MaxArgTok
  /\ \E t \in ArgTokens : input' = Append(input, t)
  /\ UNCHANGED <<macro, pc, rule, wrapper, es, idx, out, result>>

\* the closing delimiter of the invocation: the rules are tried in order
\* on the tokens read
EndOfInput ==
  /\ pc = "read"
  /\ pc' = "match"
  /\ rule' = 1
  /\ UNCHANGED <<macro, input, wrapper, es, idx, out, result>>

\* the rule being tried matches: its bindings are kept for transcription
RuleMatches ==
  /\ pc = "match"
  /\ LET r == MatchRule(Rules(macro)[rule], input)
     IN  /\ r.status = "match"
         /\ wrapper' = r.wrapper
         /\ es' = r.es
  /\ pc' = "transcribe"
  /\ idx' = 0
  /\ out' = <<>>
  /\ UNCHANGED <<macro, input, rule, result>>

\* the rule being tried does not match and another rule follows
RuleFails ==
  /\ pc = "match"
  /\ MatchRule(Rules(macro)[rule], input).status = "nomatch"
  /\ rule < Len(Rules(macro))
  /\ rule' = rule + 1
  /\ UNCHANGED <<macro, input, pc, wrapper, es, idx, out, result>>

\* no rule matches, or a fragment fails to parse: the invocation is rejected
Reject ==
  /\ pc = "match"
  /\ LET r == MatchRule(Rules(macro)[rule], input)
     IN  \/ r.status = "fatal"
         \/ r.status = "nomatch" /\ rule = Len(Rules(macro))
  /\ pc' = "error"
  /\ rule' = 0
  /\ result' = Rejected
  /\ UNCHANGED <<macro, input, wrapper, es, idx, out>>

\* mutation: an iteration that transcribes its element twice
TranscribeStepTwice ==
  /\ pc = "transcribe"
  /\ idx < Len(es)
  /\ LET x == Wrap(Rules(macro)[rule], wrapper, es[idx + 1])
     IN  out' = out \o <<x, x>>
  /\ idx' = idx + 1
  /\ UNCHANGED <<macro, input, pc, rule, wrapper, es, result>>

\* mutation: an iteration that rewrites the elements already emitted
TranscribeStepOverwrite ==
  /\ pc = "transcribe"
  /\ idx < Len(es)
  /\ out' = [j \in 1..(idx + 1) |-> Wrap(Rules(macro)[rule], wrapper, es[idx + 1])]
  /\ idx' = idx + 1
  /\ UNCHANGED <<macro, input, pc, rule, wrapper, es, result>>

\* one iteration of the repetition $( ... ),* of the transcriber
TranscribeStep ==
  /\ pc = "transcribe"
  /\ idx < Len(es)
  /\ out' = Append(out, Wrap(Rules(macro)[rule], wrapper, es[idx + 1]))
  /\ idx' = idx + 1
  /\ UNCHANGED <<macro, input, pc, rule, wrapper, es, result>>

\* the repetition is exhausted: the container is closed
Close ==
  /\ pc = "transcribe"
  /\ idx = Len(es)
  /\ result' = Emit(Rules(macro)[rule], out)
  /\ pc' = "done"
  /\ UNCHANGED <<macro, input, rule, wrapper, es, idx, out>>

Next ==
  \/ Invoke
  \/ ReadArgToken
  \/ EndOfInput
  \/ RuleMatches
  \/ RuleFails
  \/ Reject
  \/ TranscribeStep
  \/ Close

Spec == Init /\ [][Next]_vars

FairSpec == Init /\ [][Next]_vars /\ WF_vars(Next)

TypeOK ==
  /\ macro \in Macros
  /\ pc \in {"idle", "read", "match", "transcribe", "done", "error"}
  /\ rule \in 0..2
  /\ idx \in 0..Len(es)
  /\ Len(out) = idx

(***************************************************************************)
(* The expansion of a whole invocation: the first rule that matches is     *)
(* transcribed; a parse error or no matching rule gives no output.         *)
(***************************************************************************)
TranscribeAll(r, w, bound) == [i \in 1..Len(bound) |-> Wrap(r, w, bound[i])]

RECURSIVE ExpandFrom(_, _, _)
ExpandFrom(m, k, toks) ==
  IF k > Len(Rules(m)) THEN Rejected
  ELSE LET r == MatchRule(Rules(m)[k], toks)
       IN  IF r.status = "match"
           THEN Emit(Rules(m)[k], TranscribeAll(Rules(m)[k], r.wrapper, r.es))
           ELSE IF r.status = "fatal" THEN Rejected
           ELSE ExpandFrom(m, k + 1, toks)

Expand(m, toks) == ExpandFrom(m, 1, toks)

\* the expression the emitted tokens denote: ( x ) is x itself, ( x, y ) and
\* () are tuples, [ ... ] is an array and vec![ ... ] a vector
ExprOf(res) ==
  IF res.container = "paren"
  THEN IF Len(res.elems) = 1
       THEN [kind |-> "value", parts |-> res.elems]
       ELSE [kind |-> "tuple", parts |-> res.elems]
  ELSE [kind |-> res.container, parts |-> res.elems]

(***************************************************************************)
(* What an invocation was written as, read off the token stream            *)
(* independently of the matcher.                                           *)
(***************************************************************************)
HeadOf(toks) == SubSeq(toks, 1, SemiPos(toks) - 1)

ArgToksOf(toks) == SubSeq(toks, SemiPos(toks) + 1, Len(toks))

IsLiteral(t) == t \in Literals

\* the expressions written in the argument list, left to right
SuppliedArgs(toks) == SelectSeq(ArgToksOf(toks), IsLiteral)

\* ident (:: ident)*
IsSegments(h) ==
  /\ Len(h) % 2 = 1
  /\ \A i \in 1..Len(h) : IF i % 2 = 1 THEN h[i] \in Idents ELSE h[i] = "::"

IsCallableHead(h) ==
  \/ IsSegments(h)
  \/ Len(h) >= 2 /\ h[1] = "::" /\ IsSegments(Tail(h))

IsMacroHead(h) == Len(h) = 2 /\ h[1] \in Idents /\ h[2] = "!"

ValidHead(h) == IsCallableHead(h) \/ IsMacroHead(h)

\* e1, e2, ..., en with n >= 1 and no trailing comma
IsPlainList(a) ==
  /\ Len(a) % 2 = 1
  /\ \A i \in 1..Len(a) : IF i % 2 = 1 THEN a[i] \in Literals ELSE a[i] = ","

\* e1, e2, ..., en, with n >= 1
IsTrailingList(a) ==
  /\ Len(a) >= 2
  /\ a[Len(a)] = ","
  /\ IsPlainList(SubSeq(a, 1, Len(a) - 1))

\* a separator with no expression before it
IsMalformedSeparators(a) ==
  \/ Len(a) >= 1 /\ a[1] = ","
  \/ \E i \in 1..(Len(a) - 1) : a[i] = "," /\ a[i + 1] = ","

ContainerOf(m) ==
  CASE m = "wrapped_list"  -> "array"
    [] m = "wrapped_vec"   -> "vec"
    [] m = "wrapped_tuple" -> "paren"

\* w(e) for a callable w, w!(e) for a macro name w!, as written
Applied(h, e) == h \o <<"(", e, ")">>

AppliedAll(h, args) == [i \in 1..Len(args) |-> Applied(h, args[i])]

Finished == pc \in {"done", "error"}

Started == pc # "idle"

(***************************************************************************)
(* Properties.                                                             *)
(***************************************************************************)

\* C1: wrapped_list![w; e1, ..., en] with n >= 1, for a callable path w and
\* for a macro name w!, expands to the array whose i-th element is w(ei)
\* (respectively w!(ei)), in the order of the arguments.
C1_ListWrapsEachInOrder ==
  (Finished /\ macro = "wrapped_list" /\ ValidHead(HeadOf(input))
     /\ IsPlainList(ArgToksOf(input)))
  => /\ pc = "done"
     /\ result = [container |-> "array",
                  elems |-> AppliedAll(HeadOf(input), SuppliedArgs(input))]

C1_Witness ==
  /\ pc = "done"
  /\ macro = "wrapped_list"
  /\ input = <<"m", "!", ";", "1", ",", "2", ",", "1">>
  /\ result.elems = << <<"m", "!", "(", "1", ")">>, <<"m", "!", "(", "2", ")">>,
                       <<"m", "!", "(", "1", ")">> >>

\* C2: for each of the three macros and every accepted argument list, the
\* emitted collection has as many elements as arguments were supplied, the
\* i-th element holds the i-th argument, and the wrapper was applied once
\* per argument.
C2_OneElementPerArgument ==
  pc = "done"
  => /\ Len(result.elems) = Len(SuppliedArgs(input))
     /\ idx = Len(SuppliedArgs(input))
     /\ \A i \in 1..Len(result.elems) :
          /\ Len(SelectSeq(result.elems[i], IsLiteral)) = 1
          /\ SelectSeq(result.elems[i], IsLiteral)[1] = SuppliedArgs(input)[i]

C2_Witness ==
  /\ pc = "done"
  /\ macro = "wrapped_tuple"
  /\ SuppliedArgs(input) = <<"2", "1", "1">>
  /\ Len(result.elems) = 3

\* C3: an invocation whose argument list ends with one trailing comma
\* produces exactly the output of the same invocation without it, for
\* every n >= 1 and both wrapper kinds.
C3_TrailingCommaSameOutput ==
  (Finished /\ ValidHead(HeadOf(input)) /\ IsTrailingList(ArgToksOf(input)))
  => /\ result = Expand(macro, SubSeq(input, 1, Len(input) - 1))
     /\ result # Rejected

C3_Witness ==
  /\ pc = "done"
  /\ macro = "wrapped_list"
  /\ input = <<"w", ";", "1", ",", "2", ",">>
  /\ result.elems = << <<"w", "(", "1", ")">>, <<"w", "(", "2", ")">> >>

\* C4: for the same wrapper and argument list, wrapped_vec and
\* wrapped_tuple hold the same wrapped elements in the same order as
\* wrapped_list, with the same number of wrapper applications; only the
\* container differs.
C4_SameElementsAcrossMacros ==
  Finished
  => LET asList == Expand("wrapped_list", input)
     IN  /\ result.elems = asList.elems
         /\ (result = Rejected) <=> (asList = Rejected)
         /\ result # Rejected => /\ result.container = ContainerOf(macro)
                                 /\ asList.container = "array"
                                 /\ idx = Len(asList.elems)

C4_Witness ==
  /\ pc = "done"
  /\ macro = "wrapped_vec"
  /\ input = <<"m", "!", ";", "2", ",", "1">>
  /\ result = [container |-> "vec",
               elems |-> << <<"m", "!", "(", "2", ")">>, <<"m", "!", "(", "1", ")">> >>]

C6_MalformedSeparatorsRejected ==
  (Finished /\ IsMalformedSeparators(ArgToksOf(input)))
  => (pc = "error" /\ result = Rejected)

\* C7: a wrapper that is neither a callable path nor a simple identifier
\* followed by `!` matches no rule of any macro and produces no output.
C7_BadWrapperRejected ==
  (Finished /\ ~ValidHead(HeadOf(input)))
  => (pc = "error" /\ result = Rejected)

C7_Witness ==
  /\ pc = "error"
  /\ macro = "wrapped_vec"
  /\ input = <<"a", "::", "b", "!", ";", "1", ",", "2">>
  /\ result = Rejected

\* C8: wrapped_tuple!(w; e1, ..., en) with n >= 2 is the n-component tuple
\* whose i-th component is w(ei); with one argument it is w(e1) itself.
C8_TupleShape ==
  (Finished /\ macro = "wrapped_tuple" /\ ValidHead(HeadOf(input))
     /\ IsPlainList(ArgToksOf(input)))
  => LET args == SuppliedArgs(input)
     IN  /\ Len(args) >= 2 =>
              ExprOf(result) = [kind |-> "tuple",
                                parts |-> AppliedAll(HeadOf(input), args)]
         /\ Len(args) = 1 =>
              ExprOf(result) = [kind |-> "value",
                                parts |-> <<Applied(HeadOf(input), args[1])>>]

C8_Witness ==
  /\ pc = "done"
  /\ macro = "wrapped_tuple"
  /\ input = <<"a", "::", "b", ";", "2">>
  /\ ExprOf(result) = [kind |-> "value", parts |-> << <<"a", "::", "b", "(", "2", ")">> >>]

\* C9: every accepted invocation selects exactly one rule, decided by the
\* syntax of the wrapper alone: a name followed by `!` is expanded by the
\* macro rule (elements w!(e)), a wrapper without `!` by the callable rule
\* (elements w(e)), whatever the argument count or trailing comma.
HasBang(h) == \E i \in 1..Len(h) : h[i] = "!"

C9_OneRuleByWrapperSyntax ==
  pc \in {"transcribe", "done"}
  => /\ Cardinality({k \in 1..Len(Rules(macro)) :
                       MatchRule(Rules(macro)[k], input).status = "match"}) = 1
     /\ Rules(macro)[rule].call = (IF HasBang(HeadOf(input)) THEN "macro" ELSE "fn")
     /\ HasBang(HeadOf(input)) => IsMacroHead(HeadOf(input))
     /\ ~HasBang(HeadOf(input)) => IsCallableHead(HeadOf(input))
     /\ \A i \in 1..Len(out) : out[i] = Applied(HeadOf(input), es[i])

C9_Witness ==
  /\ pc = "done"
  /\ rule = 2
  /\ input = <<"m", "!", ";", "1", ",", "2", ",", "2", ",">>
  /\ \A i \in 1..3 : HasBang(result.elems[i])

\* C10: with three or more arguments every expansion step shrinks the
\* unprocessed tail by one argument and extends the fragment by one wrapped
\* element, leaving the emitted elements unchanged, and the expansion
\* terminates with one wrap-and-append per argument.
UnprocessedTail == SubSeq(es, idx + 1, Len(es))

C10_StepShape ==
  [][(pc = "transcribe" /\ Len(es) >= 3 /\ out' # out)
       => /\ UnprocessedTail # <<>>
          /\ UnprocessedTail' = Tail(UnprocessedTail)
          /\ Len(out') = Len(out) + 1
          /\ SubSeq(out', 1, Len(out)) = out
          /\ SelectSeq(out'[Len(out')], IsLiteral) = <<Head(UnprocessedTail)>>
          /\ es' = es]_vars

C10_StepsAndTermination ==
  /\ C10_StepShape
  /\ [][(pc = "transcribe" /\ pc' = "done" /\ Len(es) >= 3)
          => (UnprocessedTail = <<>> /\ Len(out) = Len(es) /\ result'.elems = out)]_vars
  /\ (pc = "transcribe" /\ Len(es) >= 3) ~> (pc = "done" /\ Len(result.elems) = Len(es))

C10_Witness ==
  /\ pc = "done"
  /\ es = <<"1", "2", "2">>
  /\ idx = 3
  /\ Len(result.elems) = 3

====
